---- MODULE Spec2Model ----
(***************************************************************************)
(* CTA Bus-O-Tron (src/ctaBusOTron.ino): the arrival-urgency display       *)
(* engine.  The model follows the sketch: LEDController, DisplayManager    *)
(* and BusOTron::handleMQTTMessage, on the ESP8266's 32-bit int, long and  *)
(* unsigned long.                                                          *)
(*                                                                         *)
(* TLC's integers are 32-bit signed, so a value of type unsigned long is   *)
(* kept as a pair <<hi, lo>> of 16-bit limbs (value = hi * 65536 + lo) and *)
(* the arithmetic the sketch does on it is done limb-wise.                 *)
(***************************************************************************)
EXTENDS Integers, Sequences, FiniteSets, TLC

VARIABLES
    clock,          \* millis(): the device's millisecond clock, unsigned long
    systemEnabled,  \* BusOTron::systemEnabled
    alertActive,    \* BusOTron::alertActive
    eta,            \* routes[i].eta, i in 0..5
    pins,           \* level of each output pin (TRUE = HIGH)
    inbox,          \* the MQTT message being delivered to the callback, or NoMsg
    handled,        \* TRUE once handleMQTTMessage has returned for inbox
    pre,            \* the shared state as it was when handleMQTTMessage was entered
    msgCount,       \* number of messages received so far
    arg,            \* arguments of the LEDController call under test
    policy,         \* the blink policy the last updateArrowBlink call chose
    firstPins,      \* pins after the first of two updateArrowBlink calls
    pc,             \* position of the running sequence (setup/loop, or the LEDController calls)
    prevSlot,       \* the slot that was active before the active slot last changed
    dwell,          \* ms the active slot has been active so far
    prevDwell,      \* ms the previous slot had been active when it was replaced
    ticks,          \* number of render ticks followed so far (SpecLoop)
    lastMsg,        \* the most recent message that arrived on each topic
    whileOff,       \* topics whose most recent message arrived with systemEnabled false (SpecStandby)
    connected,      \* mqttClient.connected()
    subscribed      \* the topics the broker forwards to this connection

vars == <<clock, systemEnabled, alertActive, eta, pins, inbox, handled, pre,
          msgCount, arg, policy, firstPins, pc, prevSlot, dwell, prevDwell,
          ticks, lastMsg, whileOff, connected, subscribed>>

routerVars == <<systemEnabled, alertActive, eta, inbox, handled, pre, msgCount>>
ledTestVars == <<arg, policy, firstPins, pc>>
clockVars == <<clock, prevSlot, dwell, prevDwell>>
loopVars == <<ticks, lastMsg, whileOff>>
netVars == <<connected, subscribed>>

----------------------------------------------------------------------------
(* 32-bit machine integers *)

\* one 16-bit limb of an unsigned long
Limb == 65536

INT_MAX == 2147483647
INT_MIN == (-2147483647) - 1

\* the unsigned long with limbs hi and lo
UL(hi, lo) == <<hi, lo>>

\* the unsigned long of a small non-negative integer n < 2^31
ULOf(n) == <<n \div Limb, n % Limb>>

\* t + d in unsigned long arithmetic (wraps at 2^32), for 0 <= d < 2^31
ULAdd(t, d) ==
    LET lo == t[2] + (d % Limb)
        hi == t[1] + (d \div Limb) + (lo \div Limb)
    IN  <<hi % Limb, lo % Limb>>

\* t % m for an unsigned long t and 0 < m <= 65536
ULMod(t, m) == (((t[1] % m) * (Limb % m)) + t[2]) % m

\* t / m for an unsigned long t and 0 < m < 32768 (schoolbook division by limbs)
ULDiv(t, m) ==
    ((t[1] \div m) * Limb) + ((((t[1] % m) * Limb) + t[2]) \div m)

\* TRUE iff the unsigned long fits TLC's integers (t < 2^31)
ULSmall(t) == t[1] < 32768

\* the integer value of an unsigned long below 2^31
ULVal(t) == (t[1] * Limb) + t[2]

----------------------------------------------------------------------------
(* Route registry *)

ROUTE_COUNT == 6

RouteIds == 0 .. (ROUTE_COUNT - 1)

\* a table bug: Route 151 North is given slot 4, which Route 151 South has
routesSharedSlot ==
    [i \in RouteIds |->
        CASE i = 0 -> [name |-> "Downtown Express", topic |-> "CTApredictions/BUS/dtwnEXP",
                       color |-> "AMBER_LEFT", arrow |-> "ARROW_LEFT", displaySlot |-> 0]
          [] i = 1 -> [name |-> "Route 77 West", topic |-> "CTApredictions/BUS/1151/77",
                       color |-> "AMBER_LEFT", arrow |-> "ARROW_RIGHT", displaySlot |-> 1]
          [] i = 2 -> [name |-> "Brown Line South", topic |-> "CTApredictions/RAIL/30232",
                       color |-> "RED_LIGHT", arrow |-> "ARROW_LEFT", displaySlot |-> 2]
          [] i = 3 -> [name |-> "Brown Line North", topic |-> "CTApredictions/RAIL/30231",
                       color |-> "RED_LIGHT", arrow |-> "ARROW_RIGHT", displaySlot |-> 3]
          [] i = 4 -> [name |-> "Route 151 South", topic |-> "CTApredictions/BUS/1074/151",
                       color |-> "AMBER_RIGHT", arrow |-> "ARROW_LEFT", displaySlot |-> 4]
          [] OTHER -> [name |-> "Route 151 North", topic |-> "CTApredictions/BUS/1151/151",
                       color |-> "AMBER_RIGHT", arrow |-> "ARROW_RIGHT", displaySlot |-> 4]]

\* BusOTron::routes: topic, color, arrow and display slot of each route
routes ==
    [i \in RouteIds |->
        CASE i = 0 -> [name |-> "Downtown Express", topic |-> "CTApredictions/BUS/dtwnEXP",
                       color |-> "AMBER_LEFT", arrow |-> "ARROW_LEFT", displaySlot |-> 0]
          [] i = 1 -> [name |-> "Route 77 West", topic |-> "CTApredictions/BUS/1151/77",
                       color |-> "AMBER_LEFT", arrow |-> "ARROW_RIGHT", displaySlot |-> 1]
          [] i = 2 -> [name |-> "Brown Line South", topic |-> "CTApredictions/RAIL/30232",
                       color |-> "RED_LIGHT", arrow |-> "ARROW_LEFT", displaySlot |-> 2]
          [] i = 3 -> [name |-> "Brown Line North", topic |-> "CTApredictions/RAIL/30231",
                       color |-> "RED_LIGHT", arrow |-> "ARROW_RIGHT", displaySlot |-> 3]
          [] i = 4 -> [name |-> "Route 151 South", topic |-> "CTApredictions/BUS/1074/151",
                       color |-> "AMBER_RIGHT", arrow |-> "ARROW_LEFT", displaySlot |-> 4]
          [] OTHER -> [name |-> "Route 151 North", topic |-> "CTApredictions/BUS/1151/151",
                       color |-> "AMBER_RIGHT", arrow |-> "ARROW_RIGHT", displaySlot |-> 5]]

\* a constructor bug: eta starts at a large "unknown" value instead of 0
InitEtaUnknown == [i \in RouteIds |-> 9999]

\* Route::Route: every route starts with eta 0
InitEta == [i \in RouteIds |-> 0]

----------------------------------------------------------------------------
(* LEDController *)

BLINK_SUPER_FAST == 180
BLINK_FAST == 360
BLINK_MEDIUM == 600
BLINK_SLOW == 900

PinNames == {"PIN_ARROW_RIGHT", "PIN_ARROW_LEFT", "PIN_AMBER_RIGHT",
             "PIN_AMBER_LEFT", "PIN_TALL_LIGHT", "PIN_RED"}

\* LEDController::init: route LEDs off, status light on during startup
InitPins == [p \in PinNames |-> p = "PIN_TALL_LIGHT"]

\* a clearing bug: turnOffAll writes the three color pins only and leaves the
\* two arrow pins as they are
turnOffAllColorsOnly(p) ==
    [q \in PinNames |->
        IF q \in {"PIN_AMBER_RIGHT", "PIN_AMBER_LEFT", "PIN_RED"} THEN FALSE ELSE p[q]]

\* LEDController::turnOffAll: every route LED low, the status light untouched
turnOffAll(p) ==
    [p EXCEPT !["PIN_ARROW_RIGHT"] = FALSE, !["PIN_ARROW_LEFT"] = FALSE,
              !["PIN_AMBER_RIGHT"] = FALSE, !["PIN_AMBER_LEFT"] = FALSE,
              !["PIN_RED"] = FALSE]

\* LEDController::setStatusLight
setStatusLight(p, on) == [p EXCEPT !["PIN_TALL_LIGHT"] = on]

\* LEDController::setColorLight
setColorLight(p, color, on) ==
    CASE color = "AMBER_LEFT"  -> [p EXCEPT !["PIN_AMBER_LEFT"] = on]
      [] color = "AMBER_RIGHT" -> [p EXCEPT !["PIN_AMBER_RIGHT"] = on]
      [] color = "RED_LIGHT"   -> [p EXCEPT !["PIN_RED"] = on]

\* LEDController::setArrow
setArrow(p, direction, on) ==
    CASE direction = "ARROW_LEFT" ->
            [p EXCEPT !["PIN_ARROW_LEFT"] = on, !["PIN_ARROW_RIGHT"] = FALSE]
      [] direction = "ARROW_RIGHT" ->
            [p EXCEPT !["PIN_ARROW_RIGHT"] = on, !["PIN_ARROW_LEFT"] = FALSE]
      [] direction = "NO_ARROW" ->
            [p EXCEPT !["PIN_ARROW_LEFT"] = FALSE, !["PIN_ARROW_RIGHT"] = FALSE]

\* a threshold bug: every band closed on the right instead of open
getBlinkIntervalInclusive(e) ==
    IF e <= 90 THEN BLINK_SUPER_FAST
    ELSE IF e <= 300 THEN BLINK_FAST
    ELSE IF e <= 600 THEN BLINK_MEDIUM
    ELSE IF e <= 900 THEN BLINK_SLOW
    ELSE IF e <= 5000 THEN -1
    ELSE 0

\* LEDController::getBlinkInterval: ms of the blink interval, -1 solid, 0 off
getBlinkInterval(e) ==
    IF e < 90 THEN BLINK_SUPER_FAST
    ELSE IF e < 300 THEN BLINK_FAST
    ELSE IF e < 600 THEN BLINK_MEDIUM
    ELSE IF e < 900 THEN BLINK_SLOW
    ELSE IF e < 5000 THEN -1
    ELSE 0

\* the branch updateArrowBlink takes for an eta: its early returns and the
\* interval it blinks with
blinkPolicy(e) ==
    IF e <= 0 THEN [kind |-> "Off", interval |-> 0]
    ELSE LET blinkInterval == getBlinkInterval(e)
         IN  IF blinkInterval = 0 THEN [kind |-> "Off", interval |-> 0]
             ELSE IF blinkInterval = -1 THEN [kind |-> "Solid", interval |-> 0]
             ELSE [kind |-> "Blink", interval |-> blinkInterval]

\* a phase bug: on during the second half of the interval
shouldBeOnSecondHalf(currentTime, blinkInterval) ==
    ULMod(currentTime, blinkInterval) >= (blinkInterval \div 2)

\* updateArrowBlink's shouldBeOn: (currentTime % blinkInterval) < (blinkInterval / 2)
shouldBeOn(currentTime, blinkInterval) ==
    ULMod(currentTime, blinkInterval) < (blinkInterval \div 2)

\* LEDController::updateArrowBlink
updateArrowBlink(p, direction, e, currentTime) ==
    LET bp == blinkPolicy(e)
    IN  CASE bp.kind = "Off"   -> setArrow(p, direction, FALSE)
          [] bp.kind = "Solid" -> setArrow(p, direction, TRUE)
          [] bp.kind = "Blink" -> setArrow(p, direction, shouldBeOn(currentTime, bp.interval))

----------------------------------------------------------------------------
(* Values of the variables a specification does not use *)

NoMsg == [topic |-> "", payload |-> <<>>]
NoPre == [systemEnabled |-> TRUE, alertActive |-> FALSE, eta |-> InitEta]
NoArg == [direction |-> "NO_ARROW", eta |-> 0, currentTime |-> UL(0, 0)]
NoPolicy == [kind |-> "None", interval |-> 0]

\* BusOTron::BusOTron and Route::Route: enabled, no alert, every eta 0, no message yet
RouterInit ==
    /\ systemEnabled = TRUE
    /\ alertActive = FALSE
    /\ eta = InitEta
    /\ inbox = NoMsg
    /\ handled = FALSE
    /\ pre = NoPre
    /\ msgCount = 0

LedTestIdle ==
    /\ arg = NoArg
    /\ policy = NoPolicy
    /\ firstPins = InitPins
    /\ pc = "idle"

\* no render tick yet, no message yet
LoopIdle ==
    /\ ticks = 0
    /\ lastMsg = {}
    /\ whileOff = {}

\* NetworkManager::NetworkManager: the client is constructed, not connected
NetIdle ==
    /\ connected = FALSE
    /\ subscribed = {}

\* millis() starts at 0 when the device boots, at the start of slot 0
ClockInit ==
    /\ clock = UL(0, 0)
    /\ prevSlot = -1
    /\ dwell = 0
    /\ prevDwell = 0

----------------------------------------------------------------------------
(* SpecBlink: LEDController::updateArrowBlink applied to sampled arguments *)

\* etas from -EtaMargin to 5000 + EtaMargin are all tried
EtaMargin == 3

\* timestamps are tried in windows of this many ms
BlinkWindow == 900

EtaAll == ((0 - EtaMargin) .. (5000 + EtaMargin)) \cup {INT_MIN, INT_MAX}

\* the values next to each threshold of getBlinkInterval
EtaBoundary == {-1, 0, 1, 89, 90, 299, 300, 599, 600, 899, 900, 4999, 5000, INT_MAX}

\* the arrows the six routes use
RouteArrows == {routes[i].arrow : i \in RouteIds}

\* a few timestamps: boot, a mid value, the last value before the clock wraps
FewTimes == {UL(0, 0), UL(0, 95), UL(32768, 0), UL(Limb - 1, Limb - 1)}

\* the first BlinkWindow ms after boot, the two values around 2^31, and the
\* last BlinkWindow ms before the clock wraps at 2^32
TimeWindow ==
    {UL(0, k) : k \in 0 .. (BlinkWindow - 1)}
        \cup {UL(32767, Limb - 1), UL(32768, 0)}
        \cup {UL(Limb - 1, Limb - k) : k \in 1 .. BlinkWindow}

BlinkArgs ==
    [direction : RouteArrows, eta : EtaAll, currentTime : FewTimes]
        \cup [direction : RouteArrows, eta : EtaBoundary, currentTime : TimeWindow]

InitBlink ==
    /\ RouterInit
    /\ ClockInit
    /\ LoopIdle
    /\ NetIdle
    /\ pins = InitPins
    /\ arg \in BlinkArgs
    /\ policy = NoPolicy
    /\ firstPins = InitPins
    /\ pc = "start"

\* ledController.updateArrowBlink(direction, eta, currentTime)
CallUpdateArrowBlink ==
    /\ pc = "start"
    /\ pins' = updateArrowBlink(pins, arg.direction, arg.eta, arg.currentTime)
    /\ policy' = blinkPolicy(arg.eta)
    /\ firstPins' = pins'
    /\ pc' = "called"
    /\ UNCHANGED <<netVars, arg, routerVars, clockVars, loopVars>>

\* the same call one blink interval later on the millisecond clock
CallAgainAfterInterval ==
    /\ pc = "called"
    /\ policy.kind = "Blink"
    /\ arg' = [arg EXCEPT !.currentTime = ULAdd(@, policy.interval)]
    /\ pins' = updateArrowBlink(pins, arg.direction, arg.eta, arg'.currentTime)
    /\ pc' = "again"
    /\ UNCHANGED <<netVars, policy, firstPins, routerVars, clockVars, loopVars>>

NextBlink == CallUpdateArrowBlink \/ CallAgainAfterInterval

SpecBlink == InitBlink /\ [][NextBlink]_vars

\* the level of the arrow pin a direction names
ArrowPin(direction) ==
    IF direction = "ARROW_LEFT" THEN "PIN_ARROW_LEFT" ELSE "PIN_ARROW_RIGHT"

\* C1: the blink policy updateArrowBlink chooses is Off for eta <= 0,
\* Blink(180) for 0 < eta < 90, Blink(360) for 90 <= eta < 300, Blink(600) for
\* 300 <= eta < 600, Blink(900) for 600 <= eta < 900, Solid for
\* 900 <= eta < 5000 and Off for eta >= 5000.
C1_BlinkPolicyTable ==
    (pc \in {"called", "again"}) =>
        LET e == arg.eta
        IN  /\ (e <= 0) => policy = [kind |-> "Off", interval |-> 0]
            /\ (0 < e /\ e < 90) => policy = [kind |-> "Blink", interval |-> 180]
            /\ (90 <= e /\ e < 300) => policy = [kind |-> "Blink", interval |-> 360]
            /\ (300 <= e /\ e < 600) => policy = [kind |-> "Blink", interval |-> 600]
            /\ (600 <= e /\ e < 900) => policy = [kind |-> "Blink", interval |-> 900]
            /\ (900 <= e /\ e < 5000) => policy = [kind |-> "Solid", interval |-> 0]
            /\ (e >= 5000) => policy = [kind |-> "Off", interval |-> 0]

\* C1 witness: the call was made with the boundary value 90 and chose Blink(360)
C1_Witness ==
    /\ pc = "called"
    /\ arg.eta = 90
    /\ policy = [kind |-> "Blink", interval |-> 360]

\* C2: after updateArrowBlink the arrow is off for policy Off, on for policy
\* Solid, and for Blink(I) on iff (now mod I) < I / 2; the other arrow is off.
C2_ArrowPhase ==
    (pc = "called") =>
        LET on == pins[ArrowPin(arg.direction)]
            now == arg.currentTime
        IN  /\ (policy.kind = "Off") => ~on
            /\ (policy.kind = "Solid") => on
            /\ (policy.kind = "Blink") =>
                  (on <=> (ULMod(now, policy.interval) < (policy.interval \div 2)))
            /\ \A d \in RouteArrows : (d # arg.direction) => ~pins[ArrowPin(d)]
            /\ policy.kind \in {"Off", "Solid", "Blink"}

\* C2 witness: a Blink(360) call in the second half of its interval left the
\* arrow off (240 seconds at a time t with t mod 360 = 240)
C2_Witness ==
    /\ pc = "called"
    /\ policy = [kind |-> "Blink", interval |-> 360]
    /\ arg.currentTime = UL(0, 600)
    /\ ~pins[ArrowPin(arg.direction)]

\* C3: for a blinking arrow, the arrow state at clock value now equals the
\* arrow state at the clock value one blink interval later.
C3_BlinkPeriodic ==
    (pc = "again") => (pins = firstPins)

----------------------------------------------------------------------------
(* DisplayManager: the slot schedule *)

DISPLAY_CYCLE_LENGTH == 60000
SLOT_DURATION == 10000

\* a schedule bug: the cycle length is forgotten
currentSlotNoCycle(currentTime) == ULDiv(currentTime, SLOT_DURATION)

\* DisplayManager::update: currentSlot = (currentTime % DISPLAY_CYCLE_LENGTH) / SLOT_DURATION
currentSlot(currentTime) == ULMod(currentTime, DISPLAY_CYCLE_LENGTH) \div SLOT_DURATION

----------------------------------------------------------------------------
(* SpecClock: the millisecond clock over the lifetime of the process and   *)
(* the slot DisplayManager::update derives from it                         *)

\* the clock is followed ms by ms through this many display cycles after boot
ObservedCycles == 2

\* BusOTron::init takes delay(1000) + delay(2000) and as long as the WiFi
\* connection takes (connectWiFi loops until connected); two such durations
SetupTimes == {3000, 47290}

\* 71582 whole display cycles (4 294 920 000 ms, about 49.7 days): the last
\* multiple of the cycle length below 2^32 = 4 294 967 296
LongRun == UL(65535, 18240)

ULLess(a, b) == (a[1] < b[1]) \/ (a[1] = b[1] /\ a[2] < b[2])

\* a + b for two unsigned longs, wrapping at 2^32
ULAddUL(a, b) ==
    LET lo == a[2] + b[2]
        hi == a[1] + b[1] + (lo \div Limb)
    IN  <<hi % Limb, lo % Limb>>

\* t - d for an unsigned long t >= d and 0 < d <= 65536
ULSub(t, d) == ULAddUL(t, UL(Limb - 1, Limb - d))

\* TRUE iff a + b does not wrap
ULNoWrap(a, b) == (a[1] + b[1] + ((a[2] + b[2]) \div Limb)) < Limb

InitClock ==
    /\ RouterInit
    /\ ClockInit
    /\ LoopIdle
    /\ NetIdle
    /\ pins = InitPins
    /\ arg = NoArg
    /\ policy = NoPolicy
    /\ firstPins = InitPins
    /\ pc = "setup"

\* setup(): BusOTron::init returns d ms after boot and the main loop starts.
\* The slot schedule is a function of the clock alone, so by then the active
\* slot has been active for d mod 10000 ms.
Setup ==
    /\ pc = "setup"
    /\ \E d \in SetupTimes :
          /\ clock' = ULOf(d)
          /\ dwell' = d % SLOT_DURATION
          /\ prevSlot' = IF d >= SLOT_DURATION THEN currentSlot(ULOf(d)) - 1 ELSE -1
          /\ prevDwell' = IF d >= SLOT_DURATION THEN SLOT_DURATION ELSE 0
    /\ pc' = "loop"
    /\ UNCHANGED <<netVars, pins, routerVars, arg, policy, firstPins, loopVars>>

\* the clock is followed through the first ObservedCycles cycles and from
\* LongRun to the end of its range
ClockObserved(t) ==
    \/ ULSmall(t) /\ ULVal(t) < ObservedCycles * DISPLAY_CYCLE_LENGTH
    \/ ~ULLess(t, LongRun)

\* millis() advances by one ms (wrapping at 2^32) while the main loop runs
MillisTick ==
    /\ pc = "loop"
    /\ ClockObserved(clock)
    /\ clock' = ULAdd(clock, 1)
    /\ IF currentSlot(clock') # currentSlot(clock)
          THEN /\ prevSlot' = currentSlot(clock)
               /\ prevDwell' = dwell + 1
               /\ dwell' = 0
          ELSE /\ dwell' = dwell + 1
               /\ UNCHANGED <<prevSlot, prevDwell>>
    /\ UNCHANGED <<netVars, pins, routerVars, ledTestVars, loopVars>>

\* the main loop keeps running for LongRun ms, a whole number of display
\* cycles, without the clock wrapping: the schedule is at the same point
MillisElapseCycles ==
    /\ pc = "loop"
    /\ ULNoWrap(clock, LongRun)
    /\ clock' = ULAddUL(clock, LongRun)
    /\ UNCHANGED <<prevSlot, dwell, prevDwell>>
    /\ UNCHANGED <<netVars, pins, routerVars, ledTestVars, loopVars>>

NextClock == Setup \/ MillisTick \/ MillisElapseCycles

SpecClock == InitClock /\ [][NextClock]_vars

\* C4: the active slot for timestamp t is (t mod 60000) / 10000, lies in
\* 0..5, equals (t / 10000) mod 6, and is the same for t and t + 60000.
C4_ActiveSlot ==
    LET s == currentSlot(clock)
    IN  /\ s \in 0 .. 5
        /\ s = ULDiv(clock, 10000) % 6
        /\ ULSmall(clock) => s = (ULVal(clock) % 60000) \div 10000
        /\ ULSmall(clock) => s = (ULVal(clock) \div 10000) % 6
        /\ ULNoWrap(clock, ULOf(60000)) => currentSlot(ULAdd(clock, 60000)) = s
        /\ ~ULLess(clock, ULOf(60000)) =>
              /\ ULAdd(ULSub(clock, 60000), 60000) = clock
              /\ currentSlot(ULSub(clock, 60000)) = s

\* C4 witness: t = 4 294 967 290 (71582 cycles after t = 47290) is in slot 4
C4_Witness ==
    /\ pc = "loop"
    /\ clock = UL(65535, 65530)
    /\ currentSlot(clock) = 4
    /\ currentSlot(ULSub(clock, 60000)) = 4

\* C5: over the whole lifetime of the process the active slot only ever
\* changes from s to (s + 1) mod 6, and a slot that is replaced has been
\* active for a full 10000 ms.
C5_SlotOrder ==
    (prevSlot # -1) =>
        /\ currentSlot(clock) = (prevSlot + 1) % 6
        /\ prevDwell = 10000

\* limb arithmetic agrees with integer arithmetic where both are defined
LimbArithmeticOK ==
    /\ ULMod(LongRun, DISPLAY_CYCLE_LENGTH) = 0
    /\ ULDiv(LongRun, 10000) = 429492
    /\ ULSmall(clock) =>
          /\ \A m \in {180, 360, 600, 900, 10000, 60000} :
                ULMod(clock, m) = ULVal(clock) % m
          /\ ULDiv(clock, 10000) = ULVal(clock) \div 10000
          /\ ULOf(ULVal(clock)) = clock

----------------------------------------------------------------------------
(* BusOTron::handleMQTTMessage.  A payload is a sequence of byte values     *)
(* (79 78 is "ON"); a topic is a string, compared whole as strcmp does.     *)

ENABLE_TOPIC == "devices/busotron/enable"
ALERT_TOPIC == "CTApredictions/alert/active"

\* sizeof(message): char message[16]
MESSAGE_SIZE == 16

\* the bytes "ON"
ON == <<79, 78>>

RECURSIVE strlenFrom(_, _)
\* strlen: the index of the last byte before the first NUL byte at or after i
strlenFrom(buf, i) ==
    IF i > Len(buf) \/ buf[i] = 0 THEN i - 1 ELSE strlenFrom(buf, i + 1)

\* the C string a buffer holds: its bytes up to the first NUL byte
CStr(buf) == SubSeq(buf, 1, strlenFrom(buf, 1))

\* an off-by-one bug: sizeof(message) bytes are kept instead of sizeof(message) - 1
copyPayloadSixteen(payload) ==
    IF Len(payload) < MESSAGE_SIZE
        THEN payload
        ELSE SubSeq(payload, 1, MESSAGE_SIZE)

\* handleMQTTMessage's copy of the payload into message[16]: the whole payload
\* when it is shorter than the buffer, else its first 15 bytes; a NUL follows
copyPayload(payload) ==
    IF Len(payload) < MESSAGE_SIZE
        THEN payload
        ELSE SubSeq(payload, 1, MESSAGE_SIZE - 1)

isspace(c) == c \in {32, 9, 10, 11, 12, 13}
isdigit(c) == c \in 48 .. 57

RECURSIVE skipSpace(_, _)
skipSpace(str, i) ==
    IF i <= Len(str) /\ isspace(str[i]) THEN skipSpace(str, i + 1) ELSE i

RECURSIVE accumulateClamped(_, _, _, _)
\* strtol's digit loop from index i with magnitude acc; acc is -2 once the
\* magnitude is exactly 2^31 of a negative number and -1 once out of range
accumulateClamped(str, i, acc, neg) ==
    IF i > Len(str) \/ ~isdigit(str[i]) THEN acc
    ELSE LET d == str[i] - 48
         IN  IF acc < 0
                 THEN accumulateClamped(str, i + 1, -1, neg)
             ELSE IF acc <= (INT_MAX - d) \div 10
                 THEN accumulateClamped(str, i + 1, (acc * 10) + d, neg)
             ELSE IF neg /\ acc = 214748364 /\ d = 8
                 THEN accumulateClamped(str, i + 1, -2, neg)
             ELSE accumulateClamped(str, i + 1, -1, neg)

RECURSIVE accumulateWrapped(_, _, _)
\* the digit loop acc = acc * 10 + digit in 32-bit arithmetic, acc an unsigned long
accumulateWrapped(str, i, acc) ==
    IF i > Len(str) \/ ~isdigit(str[i]) THEN acc
    ELSE LET lo == (acc[2] * 10) + (str[i] - 48)
             hi == (acc[1] * 10) + (lo \div Limb)
         IN  accumulateWrapped(str, i + 1, <<hi % Limb, lo % Limb>>)

\* the 32-bit two's-complement value of an unsigned long
ToSigned(t) ==
    IF t[1] >= 32768 THEN ((t[1] - Limb) * Limb) + t[2] ELSE (t[1] * Limb) + t[2]

\* 32-bit negation
Negate(v) == IF v = INT_MIN THEN INT_MIN ELSE 0 - v

\* a parsing bug: a leading sign is not accepted
toIntNoSign(str) ==
    LET start == skipSpace(str, 1)
        clamped == accumulateClamped(str, start, 0, FALSE)
    IN  {IF clamped = -1 THEN INT_MAX ELSE clamped,
         ToSigned(accumulateWrapped(str, start, UL(0, 0)))}

\* String(message).toInt(), i.e. atol(message): leading white space is
\* skipped, one sign is accepted, the digits that follow are read, and the
\* rest is ignored; no digits give 0.  A value that does not fit a long is
\* undefined behaviour of atol: strtol's clamping to LONG_MAX / LONG_MIN and
\* 32-bit wrap-around are both possible outcomes.
toInt(str) ==
    LET i0 == skipSpace(str, 1)
        neg == i0 <= Len(str) /\ str[i0] = 45
        signed == i0 <= Len(str) /\ str[i0] \in {43, 45}
        start == IF signed THEN i0 + 1 ELSE i0
        clamped == accumulateClamped(str, start, 0, neg)
        wrapped == ToSigned(accumulateWrapped(str, start, UL(0, 0)))
    IN  {IF clamped = -1 THEN (IF neg THEN INT_MIN ELSE INT_MAX)
         ELSE IF clamped = -2 THEN INT_MIN
         ELSE IF neg THEN 0 - clamped ELSE clamped,
         IF neg THEN Negate(wrapped) ELSE wrapped}

\* a lookup bug: an unmatched topic falls back to the first route
findRouteOrFirst(topic) ==
    IF \E i \in RouteIds : routes[i].topic = topic
        THEN CHOOSE i \in RouteIds :
                /\ routes[i].topic = topic
                /\ \A j \in RouteIds : routes[j].topic = topic => i <= j
        ELSE 0

\* handleMQTTMessage's loop over routes: the first route whose topic equals
\* the message's topic, or -1 when the loop ends without a match
findRoute(topic) ==
    IF \E i \in RouteIds : routes[i].topic = topic
        THEN CHOOSE i \in RouteIds :
                /\ routes[i].topic = topic
                /\ \A j \in RouteIds : routes[j].topic = topic => i <= j
        ELSE -1

\* a copy-and-paste bug: the alert branch also assigns systemEnabled
handleMQTTMessageAlertSetsEnable(st, topic, payload) ==
    LET message == CStr(copyPayload(payload))
    IN  IF topic = ENABLE_TOPIC
            THEN {[st EXCEPT !.systemEnabled = (message = ON)]}
        ELSE IF topic = ALERT_TOPIC
            THEN {[st EXCEPT !.alertActive = (message = ON),
                             !.systemEnabled = (message = ON)]}
        ELSE LET i == findRoute(topic)
             IN  IF i = -1 THEN {st}
                 ELSE {[st EXCEPT !.eta[i] = v] : v \in toInt(message)}

\* a bug: a route keeps the soonest arrival it has been told of
handleMQTTMessageKeepsSoonest(st, topic, payload) ==
    LET message == CStr(copyPayload(payload))
    IN  IF topic = ENABLE_TOPIC
            THEN {[st EXCEPT !.systemEnabled = (message = ON)]}
        ELSE IF topic = ALERT_TOPIC
            THEN {[st EXCEPT !.alertActive = (message = ON)]}
        ELSE LET i == findRoute(topic)
             IN  IF i = -1 THEN {st}
                 ELSE {[st EXCEPT !.eta[i] = IF @ > 0 /\ @ < v THEN @ ELSE v] :
                          v \in toInt(message)}

\* a gating bug: alert and route messages are dropped while the system is
\* disabled
handleMQTTMessageOnlyWhenEnabled(st, topic, payload) ==
    LET message == CStr(copyPayload(payload))
    IN  IF topic = ENABLE_TOPIC
            THEN {[st EXCEPT !.systemEnabled = (message = ON)]}
        ELSE IF ~st.systemEnabled
            THEN {st}
        ELSE IF topic = ALERT_TOPIC
            THEN {[st EXCEPT !.alertActive = (message = ON)]}
        ELSE LET i == findRoute(topic)
             IN  IF i = -1 THEN {st}
                 ELSE {[st EXCEPT !.eta[i] = v] : v \in toInt(message)}

\* BusOTron::handleMQTTMessage: the states it can return in, from state st
handleMQTTMessage(st, topic, payload) ==
    LET message == CStr(copyPayload(payload))
    IN  IF topic = ENABLE_TOPIC
            THEN {[st EXCEPT !.systemEnabled = (message = ON)]}
        ELSE IF topic = ALERT_TOPIC
            THEN {[st EXCEPT !.alertActive = (message = ON)]}
        ELSE LET i == findRoute(topic)
             IN  IF i = -1 THEN {st}
                 ELSE {[st EXCEPT !.eta[i] = v] : v \in toInt(message)}

\* systemEnabled, alertActive and the six etas
SharedState ==
    [systemEnabled |-> systemEnabled, alertActive |-> alertActive, eta |-> eta]

\* handleMQTTMessage runs from entry to return on the message in inbox
Handle ==
    /\ inbox # NoMsg
    /\ ~handled
    /\ \E st \in handleMQTTMessage(SharedState, inbox.topic, inbox.payload) :
          /\ systemEnabled' = st.systemEnabled
          /\ alertActive' = st.alertActive
          /\ eta' = st.eta
    /\ handled' = TRUE
    /\ UNCHANGED <<inbox, pre, msgCount>>

\* the callback runs; it touches no pin and takes no time the model counts
HandleMessage ==
    /\ Handle
    /\ UNCHANGED <<netVars, pins, clockVars, ledTestVars, loopVars>>

----------------------------------------------------------------------------
(* SpecRouter: messages arrive one at a time and are handled to completion *)

\* at most this many messages are delivered
MaxMsgs == 2

\* the two control topics, the six route topics, and two topics of no handler
\* (the second a proper prefix of a route topic)
Topics ==
    {ENABLE_TOPIC, ALERT_TOPIC} \cup {routes[i].topic : i \in RouteIds}
        \cup {"bogus", "CTApredictions/BUS/1151/7"}

KnownTopics == {ENABLE_TOPIC, ALERT_TOPIC} \cup {routes[i].topic : i \in RouteIds}

RouterPayloads ==
    { <<>>,                                 \* empty
      <<79, 78>>,                           \* ON
      <<79, 70, 70>>,                       \* OFF
      <<111, 110>>,                         \* on
      <<79, 78, 32>>,                       \* ON followed by a space
      <<79, 78, 0>>,                        \* ON followed by a NUL byte
      <<79, 78, 79, 78, 79, 78, 79, 78, 79, 78, 79, 78, 79, 78, 79, 78>>,
                                            \* ONONONONONONONON (16 bytes)
      <<57, 57>>,                           \* 99
      <<50, 52, 48>>,                       \* 240
      <<45, 53>>,                           \* -5
      <<49, 50, 97, 98, 99>>,               \* 12abc
      <<97, 98, 99>>,                       \* abc
      <<48, 48, 48, 48, 48, 48, 48, 48, 48, 48, 48, 48, 48, 50, 52, 48>>,
                                            \* 0000000000000240 (16 bytes)
      <<48, 48, 48, 48, 48, 48, 48, 48, 48, 48, 48, 48, 48, 48, 57, 57, 48>>
                                            \* 00000000000000990 (17 bytes)
    }

InitRouter ==
    /\ RouterInit
    /\ ClockInit
    /\ LoopIdle
    /\ NetIdle
    /\ LedTestIdle
    /\ pins = InitPins

\* mqttClient.loop() has read a PUBLISH packet and calls the callback:
\* handleMQTTMessage is entered with its topic and payload
Receive(msgs, max) ==
    /\ inbox = NoMsg \/ handled
    /\ msgCount < max
    /\ inbox' \in msgs
    /\ handled' = FALSE
    /\ pre' = SharedState
    /\ msgCount' = msgCount + 1
    /\ UNCHANGED <<systemEnabled, alertActive, eta>>

ReceiveMessage ==
    /\ Receive([topic : Topics, payload : RouterPayloads], MaxMsgs)
    /\ UNCHANGED <<netVars, pins, clockVars, ledTestVars, loopVars>>

NextRouter == ReceiveMessage \/ HandleMessage

SpecRouter == InitRouter /\ [][NextRouter]_vars

----------------------------------------------------------------------------
(* SpecParse: handleMQTTMessage applied to one message on a route topic,   *)
(* for every short payload over a small alphabet and some long ones        *)

\* every payload of at most this many bytes over ParseAlphabet is tried
ShortLen == 3

\* NUL, space, +, -, 0, 1, 9, a
ParseAlphabet == {0, 32, 43, 45, 48, 49, 57, 97}

LongPayloads ==
    { <<50, 52, 48>>,                                       \* 240
      <<49, 50, 97, 98, 99>>,                               \* 12abc
      <<49, 46, 53>>,                                       \* 1.5
      <<50, 49, 52, 55, 52, 56, 51, 54, 52, 55>>,           \* 2147483647
      <<50, 49, 52, 55, 52, 56, 51, 54, 52, 56>>,           \* 2147483648
      <<52, 50, 57, 52, 57, 54, 55, 50, 57, 54>>,           \* 4294967296
      <<45, 50, 49, 52, 55, 52, 56, 51, 54, 52, 56>>,       \* -2147483648
      <<45, 50, 49, 52, 55, 52, 56, 51, 54, 52, 57>>,       \* -2147483649
      <<48, 48, 48, 48, 48, 48, 48, 48, 48, 48, 48, 48, 50, 52, 48>>,
                                                            \* 000000000000240 (15 bytes)
      <<57, 57, 57, 57, 57, 57, 57, 57, 57, 57, 57, 57, 57, 57, 57>>,
                                                            \* 999999999999999 (15 bytes)
      <<48, 48, 48, 48, 48, 48, 48, 48, 48, 48, 48, 48, 48, 50, 52, 48>>,
                                                            \* 0000000000000240 (16 bytes)
      <<49, 50, 51, 52, 53, 54, 55, 56, 57, 48, 49, 50, 51, 52, 53, 54>>
                                                            \* 1234567890123456 (16 bytes)
    }

ParsePayloads ==
    UNION {[1 .. k -> ParseAlphabet] : k \in 0 .. ShortLen} \cup LongPayloads

InitParse ==
    /\ systemEnabled = TRUE
    /\ alertActive = FALSE
    /\ eta = InitEta
    /\ inbox \in [topic : {routes[i].topic : i \in RouteIds}, payload : ParsePayloads]
    /\ handled = FALSE
    /\ pre = NoPre
    /\ msgCount = 1
    /\ ClockInit
    /\ LoopIdle
    /\ NetIdle
    /\ LedTestIdle
    /\ pins = InitPins

NextParse == HandleMessage

SpecParse == InitParse /\ [][NextParse]_vars

----------------------------------------------------------------------------
(* DisplayManager::update and BusOTron::loop.  lastStatusPrint only paces   *)
(* the debug print on the serial port and is left out.                     *)

\* update's loop over routes: the first route whose displaySlot is the slot,
\* or -1 when the loop ends with currentRoute still nullptr
findSlotRoute(slot) ==
    IF \E i \in RouteIds : routes[i].displaySlot = slot
        THEN CHOOSE i \in RouteIds :
                /\ routes[i].displaySlot = slot
                /\ \A j \in RouteIds : routes[j].displaySlot = slot => i <= j
        ELSE -1

\* a bug: the enabled flag is not looked at
updateIgnoresEnabled(p, currentTime, enabled, etas) ==
    LET currentRoute == findSlotRoute(currentSlot(currentTime))
        cleared == turnOffAll(p)
    IN  IF currentRoute # -1 /\ etas[currentRoute] > 0
            THEN updateArrowBlink(
                     setColorLight(cleared, routes[currentRoute].color, TRUE),
                     routes[currentRoute].arrow, etas[currentRoute], currentTime)
            ELSE cleared

\* a bug: the color light is tied to the arrow's range and goes out at 5000 s
updateColorFollowsArrow(p, currentTime, enabled, etas) ==
    IF ~enabled THEN turnOffAll(p)
    ELSE LET currentRoute == findSlotRoute(currentSlot(currentTime))
             cleared == turnOffAll(p)
         IN  IF currentRoute # -1 /\ etas[currentRoute] > 0
                 THEN updateArrowBlink(
                          setColorLight(cleared, routes[currentRoute].color,
                                        etas[currentRoute] < 5000),
                          routes[currentRoute].arrow, etas[currentRoute], currentTime)
                 ELSE cleared

\* a bug: the route LEDs are not cleared before the current route is shown
updateNoClear(p, currentTime, enabled, etas) ==
    IF ~enabled THEN turnOffAll(p)
    ELSE LET currentRoute == findSlotRoute(currentSlot(currentTime))
         IN  IF currentRoute # -1 /\ etas[currentRoute] > 0
                 THEN updateArrowBlink(
                          setColorLight(p, routes[currentRoute].color, TRUE),
                          routes[currentRoute].arrow, etas[currentRoute], currentTime)
                 ELSE turnOffAll(p)

\* a torn read: the arrow is driven from the eta as it was before the last
\* message was handled, the color from the eta as it is now
updateTornRead(p, currentTime, enabled, etas) ==
    IF ~enabled THEN turnOffAll(p)
    ELSE LET currentRoute == findSlotRoute(currentSlot(currentTime))
             cleared == turnOffAll(p)
         IN  IF currentRoute # -1 /\ etas[currentRoute] > 0
                 THEN updateArrowBlink(
                          setColorLight(cleared, routes[currentRoute].color, TRUE),
                          routes[currentRoute].arrow, pre.eta[currentRoute], currentTime)
                 ELSE cleared

\* DisplayManager::update
update(p, currentTime, enabled, etas) ==
    IF ~enabled THEN turnOffAll(p)
    ELSE LET currentRoute == findSlotRoute(currentSlot(currentTime))
             cleared == turnOffAll(p)
         IN  IF currentRoute # -1 /\ etas[currentRoute] > 0
                 THEN updateArrowBlink(
                          setColorLight(cleared, routes[currentRoute].color, TRUE),
                          routes[currentRoute].arrow, etas[currentRoute], currentTime)
                 ELSE cleared

\* a bug: the status light is only driven while the system is enabled
renderTickStatusWhenEnabled(st, p, currentTime) ==
    [systemEnabled |-> st.systemEnabled,
     alertActive |-> st.alertActive,
     eta |-> st.eta,
     pins |-> IF st.systemEnabled
                 THEN setStatusLight(update(p, currentTime, st.systemEnabled, st.eta),
                                     st.alertActive)
                 ELSE update(p, currentTime, st.systemEnabled, st.eta)]

\* a staleness expiry the sketch does not have: an eta is dropped once shown
renderTickExpiresEta(st, p, currentTime) ==
    [systemEnabled |-> st.systemEnabled,
     alertActive |-> st.alertActive,
     eta |-> [i \in RouteIds |->
                IF i = findSlotRoute(currentSlot(currentTime)) THEN 0 ELSE st.eta[i]],
     pins |-> setStatusLight(update(p, currentTime, st.systemEnabled, st.eta),
                             st.alertActive)]

\* BusOTron::loop after networkManager.loop() has returned: the object's
\* fields and the pins as displayManager.update(currentTime, systemEnabled)
\* and ledController.setStatusLight(alertActive) leave them
renderTick(st, p, currentTime) ==
    [systemEnabled |-> st.systemEnabled,
     alertActive |-> st.alertActive,
     eta |-> st.eta,
     pins |-> setStatusLight(update(p, currentTime, st.systemEnabled, st.eta),
                             st.alertActive)]

----------------------------------------------------------------------------
(* SpecLoop: setup(), then loop() again and again.  Inside                 *)
(* networkManager.loop() messages are delivered to the callback, each run  *)
(* to its return; then the loop reads millis(), renders and sleeps.        *)

\* at most this many messages are delivered
LoopMsgs == 2

\* at most this many single iterations are followed
LoopTicks == 2

\* ON and OFF on the two control topics; 45, 950 and -5 on the topic of the
\* route of slot 0; 45 and 5000 on the topic of the route of slot 5
LoopMessages ==
    [topic : {ENABLE_TOPIC, ALERT_TOPIC}, payload : {<<79, 78>>, <<79, 70, 70>>}]
        \cup [topic : {routes[0].topic},
              payload : {<<52, 53>>, <<57, 53, 48>>, <<45, 53>>}]
        \cup [topic : {routes[5].topic},
              payload : {<<52, 53>>, <<53, 48, 48, 48>>}]

\* ms between two reads of millis() in successive iterations: delay(10); half
\* a 180 ms blink interval; an iteration held up for a whole slot by a
\* blocking connect
LoopElapsed == {10, 90, 10000}

InitLoop ==
    /\ RouterInit
    /\ ClockInit
    /\ LoopIdle
    /\ NetIdle
    /\ pins = InitPins
    /\ arg = NoArg
    /\ policy = NoPolicy
    /\ firstPins = InitPins
    /\ pc = "setup"

\* mqttClient.loop() inside networkManager.loop() reads a PUBLISH packet and
\* enters the callback
LoopReceive ==
    /\ pc = "loop"
    /\ Receive(LoopMessages, LoopMsgs)
    /\ lastMsg' = {m \in lastMsg : m.topic # inbox'.topic} \cup {inbox'}
    /\ UNCHANGED <<netVars, pins, clockVars, ledTestVars, ticks, whileOff>>

\* the callback runs to its return, still inside networkManager.loop()
LoopHandle ==
    /\ pc = "loop"
    /\ HandleMessage

\* the rest of BusOTron::loop, from currentTime = millis() to setStatusLight,
\* at clock value now
RenderAt(now) ==
    LET out == renderTick(SharedState, pins, now)
    IN  /\ clock' = now
        /\ pins' = out.pins
        /\ systemEnabled' = out.systemEnabled
        /\ alertActive' = out.alertActive
        /\ eta' = out.eta

\* networkManager.loop() has returned (no callback is running: the sketch has
\* one thread); millis() is read d ms after it was last read, and the tick
\* renders
RenderTick ==
    /\ pc = "loop"
    /\ inbox = NoMsg \/ handled
    /\ ticks < LoopTicks
    /\ \E d \in LoopElapsed : RenderAt(ULAdd(clock, d))
    /\ ticks' = ticks + 1
    /\ pc' = "rendered"
    /\ UNCHANGED <<netVars, inbox, handled, pre, msgCount, arg, policy, firstPins,
                   prevSlot, dwell, prevDwell, lastMsg, whileOff>>

\* delay(10) returns and loop() is called again
NextIteration ==
    /\ pc = "rendered"
    /\ pc' = "loop"
    /\ UNCHANGED <<netVars, clock, pins, routerVars, arg, policy, firstPins,
                   prevSlot, dwell, prevDwell, loopVars>>

\* the loop goes on for LongRun ms without a message arriving and without the
\* clock wrapping; what is left of those iterations is the last one's tick
RunQuietly ==
    /\ pc \in {"loop", "rendered"}
    /\ inbox = NoMsg \/ handled
    /\ ULNoWrap(clock, LongRun)
    /\ RenderAt(ULAddUL(clock, LongRun))
    /\ pc' = "rendered"
    /\ UNCHANGED <<netVars, inbox, handled, pre, msgCount, arg, policy, firstPins,
                   prevSlot, dwell, prevDwell, loopVars>>

NextLoop ==
    Setup \/ LoopReceive \/ LoopHandle \/ RenderTick \/ NextIteration \/ RunQuietly

SpecLoop == InitLoop /\ [][NextLoop]_vars

----------------------------------------------------------------------------
(* SpecStandby: the loop of SpecLoop with the messages of a device that is *)
(* switched off and on again over the enable topic while alert and route   *)
(* messages keep arriving                                                  *)

\* at most this many messages arrive
StandbyMsgs == 3

\* OFF and ON on the enable topic, ON and OFF on the alert topic, 45 and 950
\* for the route of slot 0
StandbyMessages ==
    [topic : {ENABLE_TOPIC, ALERT_TOPIC}, payload : {<<79, 78>>, <<79, 70, 70>>}]
        \cup [topic : {routes[0].topic}, payload : {<<52, 53>>, <<57, 53, 48>>}]

\* mqttClient.loop() reads a PUBLISH packet and enters the callback; whether
\* systemEnabled was false at that moment is remembered for the topic
StandbyReceive ==
    /\ pc = "loop"
    /\ Receive(StandbyMessages, StandbyMsgs)
    /\ lastMsg' = {m \in lastMsg : m.topic # inbox'.topic} \cup {inbox'}
    /\ whileOff' = IF systemEnabled THEN whileOff \ {inbox'.topic}
                                    ELSE whileOff \cup {inbox'.topic}
    /\ UNCHANGED <<netVars, pins, clockVars, ledTestVars, ticks>>

NextStandby ==
    Setup \/ StandbyReceive \/ LoopHandle \/ RenderTick \/ NextIteration

SpecStandby == InitLoop /\ [][NextStandby]_vars

----------------------------------------------------------------------------
(* NetworkManager: the MQTT connection.  mqttClient.connect opens a new     *)
(* clean session, in which the broker forwards nothing until the client    *)
(* subscribes; mqttClient.subscribe sends nothing and returns false while  *)
(* the client is not connected.                                            *)

\* NetworkManager::subscribe on a client that is connected (conn) or not
subscribe(conn, subs, topic) == IF conn THEN subs \cup {topic} ELSE subs

\* BusOTron::subscribeToTopics: the two control topics, then each route's topic
subscribeToTopics(conn, subs) ==
    LET control == subscribe(conn, subscribe(conn, subs, ENABLE_TOPIC), ALERT_TOPIC)
    IN  control \cup UNION {subscribe(conn, control, routes[i].topic) : i \in RouteIds}

----------------------------------------------------------------------------
(* SpecNet: setup(), then loop() for ever, with a broker that may be       *)
(* unreachable and a connection that may drop.  Each iteration checks the  *)
(* connection, polls the client, renders and sleeps.  loop() is called     *)
(* again by the Arduino core whenever it returns, connect returns after    *)
(* its socket timeout at the latest and the callback returns: the sketch's *)
(* own steps are weakly fair.  Arrivals and connection losses are the      *)
(* environment's.                                                          *)

\* at most this many messages are delivered
NetMsgs == 2

\* OFF on the enable topic, ON on the alert topic, 45 for the route of slot 0
\* and 950 for the route of slot 5
NetMessages ==
    { [topic |-> ENABLE_TOPIC, payload |-> <<79, 70, 70>>],
      [topic |-> ALERT_TOPIC, payload |-> <<79, 78>>],
      [topic |-> routes[0].topic, payload |-> <<52, 53>>],
      [topic |-> routes[5].topic, payload |-> <<57, 53, 48>>]
    }

\* values millis() returns at a tick: in slot 0 early and late in the 180 ms
\* blink interval, in slot 5, and just after the clock has wrapped.  The clock
\* is cyclic and any number of iterations may lie between two ticks that are
\* followed, so each value can come after each other
NetTimes == {UL(0, 3010), UL(0, 3100), UL(0, 57290), UL(0, 4)}

InitNet ==
    /\ RouterInit
    /\ ClockInit
    /\ LoopIdle
    /\ NetIdle
    /\ pins = InitPins
    /\ arg = NoArg
    /\ policy = NoPolicy
    /\ firstPins = InitPins
    /\ pc = "setup"

\* BusOTron::init: LEDController::init, NetworkManager::init with its one
\* connectMQTT attempt, then subscribeToTopics
NetSetup ==
    /\ pc = "setup"
    /\ \E ok \in BOOLEAN :
          /\ connected' = ok
          /\ subscribed' = subscribeToTopics(ok, {})
    /\ \E d \in SetupTimes : clock' = ULOf(d)
    /\ pc' = "loop"
    /\ UNCHANGED <<pins, routerVars, arg, policy, firstPins,
                   prevSlot, dwell, prevDwell, loopVars>>

\* NetworkManager::loop with mqttClient.connected() true: no reconnect
NetStillConnected ==
    /\ pc = "loop"
    /\ connected
    /\ pc' = "poll"
    /\ UNCHANGED <<netVars, clock, pins, routerVars, arg, policy, firstPins,
                   prevSlot, dwell, prevDwell, loopVars>>

\* a fatal-error bug: a failed reconnect halts the sketch
NetReconnectGivesUp ==
    /\ pc = "loop"
    /\ ~connected
    /\ \E ok \in BOOLEAN :
          /\ connected' = ok
          /\ pc' = IF ok THEN "poll" ELSE "halted"
    /\ subscribed' = {}
    /\ UNCHANGED <<clock, pins, routerVars, arg, policy, firstPins,
                   prevSlot, dwell, prevDwell, loopVars>>

\* NetworkManager::loop with mqttClient.connected() false: reconnectMQTT
\* makes one connect attempt, which succeeds or fails (then delay(2000)),
\* and returns
NetReconnect ==
    /\ pc = "loop"
    /\ ~connected
    /\ \E ok \in BOOLEAN : connected' = ok
    /\ subscribed' = {}
    /\ pc' = "poll"
    /\ UNCHANGED <<clock, pins, routerVars, arg, policy, firstPins,
                   prevSlot, dwell, prevDwell, loopVars>>

\* mqttClient.loop() reads a PUBLISH packet the broker forwarded on a
\* subscribed topic and enters the callback
NetReceive ==
    /\ pc = "poll"
    /\ connected
    /\ Receive({m \in NetMessages : m.topic \in subscribed}, NetMsgs)
    /\ UNCHANGED <<netVars, pins, clockVars, ledTestVars, loopVars>>

\* the callback runs to its return
NetHandle ==
    /\ pc = "poll"
    /\ HandleMessage

\* networkManager.loop() has returned; the tick reads millis() and renders
NetRenderTick ==
    /\ pc = "poll"
    /\ inbox = NoMsg \/ handled
    /\ \E now \in NetTimes : RenderAt(now)
    /\ pc' = "rendered"
    /\ UNCHANGED <<netVars, inbox, handled, pre, msgCount, arg, policy, firstPins,
                   prevSlot, dwell, prevDwell, loopVars>>

\* the broker or the network goes away: the connection and its session end
ConnectionLost ==
    /\ pc \in {"loop", "poll", "rendered"}
    /\ inbox = NoMsg \/ handled
    /\ connected
    /\ connected' = FALSE
    /\ subscribed' = {}
    /\ UNCHANGED <<clock, pins, routerVars, ledTestVars,
                   prevSlot, dwell, prevDwell, loopVars>>

NextNet ==
    \/ NetSetup
    \/ NetStillConnected
    \/ NetReconnect
    \/ NetReceive
    \/ NetHandle
    \/ NetRenderTick
    \/ NextIteration
    \/ ConnectionLost

\* the steps the processor takes: at each position of the sketch exactly one
\* of them is enabled
NetProgram ==
    \/ NetSetup
    \/ NetStillConnected
    \/ NetReconnect
    \/ NetHandle
    \/ NetRenderTick
    \/ NextIteration

SpecNet ==
    /\ InitNet
    /\ [][NextNet]_vars
    /\ WF_vars(NetProgram)

----------------------------------------------------------------------------
(* Claims about handleMQTTMessage *)

\* the route whose topic a handled route message carries
RouteOf(topic) == CHOOSE i \in RouteIds : routes[i].topic = topic

IsRouteTopic(topic) == \E i \in RouteIds : routes[i].topic = topic

\* a non-empty payload of decimal digits only
AllDigits(p) == Len(p) >= 1 /\ \A k \in 1 .. Len(p) : p[k] \in 48 .. 57

RECURSIVE DecimalBytes(_)
\* the decimal digits of n >= 0, as bytes
DecimalBytes(n) ==
    IF n < 10 THEN <<48 + n>> ELSE Append(DecimalBytes(n \div 10), 48 + (n % 10))

RECURSIVE StripZeros(_)
\* a digit string without its leading zeros (one digit is always kept)
StripZeros(p) ==
    IF Len(p) > 1 /\ p[1] = 48 THEN StripZeros(Tail(p)) ELSE p

\* the digits of the magnitude of the int v
MagnitudeBytes(v) ==
    IF v = INT_MIN THEN <<50, 49, 52, 55, 52, 56, 51, 54, 52, 56>>
    ELSE IF v < 0 THEN DecimalBytes(0 - v)
    ELSE DecimalBytes(v)

\* C6: a message on the enable channel sets systemEnabled to true iff its
\* payload is exactly the two characters ON, and to false for every other
\* payload; a message on the alert channel sets alertActive by the same rule.
C6_ControlExactlyON ==
    handled =>
        /\ (inbox.topic = ENABLE_TOPIC) => (systemEnabled = (inbox.payload = <<79, 78>>))
        /\ (inbox.topic = ALERT_TOPIC) => (alertActive = (inbox.payload = <<79, 78>>))

\* C7: a message on a route's topic whose payload is an unsigned decimal
\* integer of at most 15 digits sets that route's eta to exactly the integer
\* the payload denotes.
C7_EtaIsPayloadValue ==
    (handled /\ IsRouteTopic(inbox.topic) /\ AllDigits(inbox.payload)
        /\ Len(inbox.payload) <= 15) =>
        LET v == eta[RouteOf(inbox.topic)]
        IN  /\ v >= 0
            /\ DecimalBytes(v) = StripZeros(inbox.payload)

\* C8 as stated: after a message on a route's channel the route's eta is
\* >= 0, and a payload that is not a well-formed unsigned decimal integer
\* leaves the route with eta = 0.
C8_MalformedGivesZero ==
    (handled /\ IsRouteTopic(inbox.topic)) =>
        LET v == eta[RouteOf(inbox.topic)]
        IN  /\ v >= 0
            /\ (~AllDigits(inbox.payload)) => v = 0

\* the token handleMQTTMessage decodes: the payload up to its first NUL byte,
\* and at most 15 bytes of it
TokenOf(p) ==
    LET n == CHOOSE k \in 0 .. 15 :
                 /\ k <= Len(p)
                 /\ \A j \in 1 .. k : p[j] # 0
                 /\ (k = 15 \/ k = Len(p) \/ p[k + 1] = 0)
    IN  SubSeq(p, 1, n)

\* the leading number of a token: white space, then one optional sign, then
\* the longest run of digits
LeadingNumber(t) ==
    LET w == CHOOSE k \in 0 .. Len(t) :
                 /\ \A j \in 1 .. k : t[j] \in {32, 9, 10, 11, 12, 13}
                 /\ (k = Len(t) \/ t[k + 1] \notin {32, 9, 10, 11, 12, 13})
        hasSign == w < Len(t) /\ t[w + 1] \in {43, 45}
        first == IF hasSign THEN w + 2 ELSE w + 1
        last == CHOOSE k \in (first - 1) .. Len(t) :
                 /\ \A j \in first .. k : t[j] \in 48 .. 57
                 /\ (k = Len(t) \/ t[k + 1] \notin 48 .. 57)
    IN  [neg |-> hasSign /\ t[w + 1] = 45, digits |-> SubSeq(t, first, last)]

RECURSIVE DigitsLeq(_, _)
\* a <= b for two digit strings of the same length
DigitsLeq(a, b) ==
    IF a = <<>> THEN TRUE
    ELSE IF a[1] # b[1] THEN a[1] < b[1]
    ELSE DigitsLeq(Tail(a), Tail(b))

\* the leading number fits a 32-bit int
FitsInt(num) ==
    LET sig == StripZeros(num.digits)
    IN  \/ Len(sig) < 10
        \/ /\ Len(sig) = 10
           /\ DigitsLeq(sig, IF num.neg
                                THEN <<50, 49, 52, 55, 52, 56, 51, 54, 52, 56>>
                                ELSE <<50, 49, 52, 55, 52, 56, 51, 54, 52, 55>>)

\* C8 as amended: the payload is parsed as atol parses it.  A token with no
\* leading number (empty, letters) leaves eta = 0; otherwise eta is the value
\* of the leading number whenever that fits a 32-bit int: negative for a
\* minus sign, and the value of the leading digits when other characters
\* follow them.
C8_LeadingNumberParsed ==
    (handled /\ IsRouteTopic(inbox.topic)) =>
        LET v == eta[RouteOf(inbox.topic)]
            num == LeadingNumber(TokenOf(inbox.payload))
        IN  IF num.digits = <<>> THEN v = 0
            ELSE FitsInt(num) =>
                    /\ MagnitudeBytes(v) = StripZeros(num.digits)
                    /\ num.neg => v <= 0
                    /\ (~num.neg) => v >= 0

\* C8 witness: the payload -1 on a route's channel left that route with eta = -1
C8_Witness ==
    /\ handled
    /\ IsRouteTopic(inbox.topic)
    /\ inbox.payload = <<45, 49>>
    /\ eta[RouteOf(inbox.topic)] = -1

\* C9: a message whose topic is neither control topic nor a route's topic
\* leaves systemEnabled, alertActive and all six etas as they were.
C9_UnknownTopicNoOp ==
    (handled /\ inbox.topic \notin KnownTopics) =>
        /\ systemEnabled = pre.systemEnabled
        /\ alertActive = pre.alertActive
        /\ \A i \in RouteIds : eta[i] = pre.eta[i]

\* C9 witness: "bogus" with payload 99 was handled after route 1 had got 240
C9_Witness ==
    /\ handled
    /\ inbox = [topic |-> "bogus", payload |-> <<57, 57>>]
    /\ pre.eta[1] = 240
    /\ eta[1] = 240

\* the number of state variables a handled message changed
ChangedCount ==
    (IF systemEnabled # pre.systemEnabled THEN 1 ELSE 0)
        + (IF alertActive # pre.alertActive THEN 1 ELSE 0)
        + Cardinality({i \in RouteIds : eta[i] # pre.eta[i]})

\* C10: a call of handleMQTTMessage changes at most one of systemEnabled,
\* alertActive and the six etas: an enable message only systemEnabled, an
\* alert message only alertActive, a route message only that route's eta;
\* the booleans change only through a message on their own control topic.
C10_OneMutationPerCall ==
    /\ (inbox # NoMsg /\ ~handled) => SharedState = pre
    /\ handled =>
        /\ ChangedCount <= 1
        /\ (inbox.topic = ENABLE_TOPIC) =>
              (alertActive = pre.alertActive /\ eta = pre.eta)
        /\ (inbox.topic = ALERT_TOPIC) =>
              (systemEnabled = pre.systemEnabled /\ eta = pre.eta)
        /\ \A i \in RouteIds : (routes[i].topic = inbox.topic) =>
              /\ systemEnabled = pre.systemEnabled
              /\ alertActive = pre.alertActive
              /\ \A j \in RouteIds \ {i} : eta[j] = pre.eta[j]
        /\ (systemEnabled # pre.systemEnabled) => inbox.topic = ENABLE_TOPIC
        /\ (alertActive # pre.alertActive) => inbox.topic = ALERT_TOPIC

\* C10 witness: a route 1 message changed eta[1] and left route 2's 99 alone
C10_Witness ==
    /\ handled
    /\ inbox.topic = routes[1].topic
    /\ pre.eta[1] = 0
    /\ eta[1] = 240
    /\ pre.eta[2] = 99
    /\ eta[2] = 99

\* the first 15 bytes of an oversized payload, the whole of any other
FirstFifteen(p) == IF Len(p) >= 16 THEN SubSeq(p, 1, 15) ELSE p

\* C11: the token handleMQTTMessage decodes is the first 15 bytes of a payload
\* of 16 bytes or more and the whole of a shorter payload; the message is then
\* routed as a message carrying that token is (control toggle, eta update or
\* no-op), and the handler always returns.
C11_OversizedTruncated ==
    /\ (inbox # NoMsg) =>
          /\ copyPayload(inbox.payload) = FirstFifteen(inbox.payload)
          /\ Len(copyPayload(inbox.payload)) <= 15
    /\ (inbox # NoMsg /\ ~handled) =>
          handleMQTTMessage(SharedState, inbox.topic, inbox.payload) # {}
    /\ handled =>
          /\ SharedState \in
                handleMQTTMessage(pre, inbox.topic, FirstFifteen(inbox.payload))
          /\ (inbox.topic = ENABLE_TOPIC /\ Len(inbox.payload) >= 16) => ~systemEnabled
          /\ (inbox.topic = ALERT_TOPIC /\ Len(inbox.payload) >= 16) => ~alertActive
          /\ (IsRouteTopic(inbox.topic) /\ AllDigits(inbox.payload)
                  /\ Len(inbox.payload) >= 16
                  /\ \A k \in 1 .. 6 : inbox.payload[k] = 48) =>
                DecimalBytes(eta[RouteOf(inbox.topic)])
                    = StripZeros(SubSeq(inbox.payload, 1, 15))

\* C11 witness: the 16 bytes 0000000000000240 on route 1's topic were cut to
\* 000000000000024 and set eta to 24
C11_Witness ==
    /\ handled
    /\ inbox.topic = routes[1].topic
    /\ Len(inbox.payload) = 16
    /\ inbox.payload[14] = 50
    /\ eta[1] = 24

----------------------------------------------------------------------------
(* Claims about the render tick *)

\* the five route indicators
RoutePins == PinNames \ {"PIN_TALL_LIGHT"}

\* every level the six pins can have
AllPins == [PinNames -> BOOLEAN]

\* the route that owns the slot active at the clock value of the last tick
ActiveRoute == CHOOSE i \in RouteIds : routes[i].displaySlot = currentSlot(clock)

\* C12: a render tick made while systemEnabled is false ends with the left
\* arrow, right arrow, amber left, amber right and red indicators all off,
\* at every timestamp, for all eta values and whatever was lit before.
C12_DisabledAllOff ==
    (pc = "rendered" /\ ~systemEnabled) =>
        /\ \A q \in RoutePins : ~pins[q]
        /\ \A p \in AllPins :
              LET out == update(p, clock, systemEnabled, eta)
              IN  \A q \in RoutePins : ~out[q]

\* C12 witness: the second tick, in slot 0 with route 0 at 45 s and in the
\* on-half of its blink interval, after an OFF on the enable topic: all off
C12_Witness ==
    /\ pc = "rendered"
    /\ ticks = 2
    /\ ~systemEnabled
    /\ [topic |-> ENABLE_TOPIC, payload |-> <<79, 70, 70>>] \in lastMsg
    /\ currentSlot(clock) = 0
    /\ eta[0] = 45
    /\ ULMod(clock, 180) < 90
    /\ \A q \in RoutePins : ~pins[q]

\* C13: at the end of every iteration of the main loop the tall light is on
\* iff alertActive, whatever systemEnabled, the active slot and the etas are;
\* DisplayManager::update leaves the tall light as it finds it.
C13_StatusFollowsAlert ==
    (pc = "rendered") =>
        /\ pins["PIN_TALL_LIGHT"] = alertActive
        /\ \A p \in AllPins :
              update(p, clock, systemEnabled, eta)["PIN_TALL_LIGHT"]
                  = p["PIN_TALL_LIGHT"]

\* C13 witness: a tick with the system disabled and the alert active ended
\* with the tall light on and every route indicator off
C13_Witness ==
    /\ pc = "rendered"
    /\ ~systemEnabled
    /\ alertActive
    /\ pins["PIN_TALL_LIGHT"]
    /\ \A q \in RoutePins : ~pins[q]

\* the pin of a color indicator
ColorPin(color) ==
    CASE color = "AMBER_LEFT" -> "PIN_AMBER_LEFT"
      [] color = "AMBER_RIGHT" -> "PIN_AMBER_RIGHT"
      [] color = "RED_LIGHT" -> "PIN_RED"

\* isOn(classify(e), now) for e > 0
ArrowExpected(e, now) ==
    IF e < 90 THEN ULMod(now, 180) < 90
    ELSE IF e < 300 THEN ULMod(now, 360) < 180
    ELSE IF e < 600 THEN ULMod(now, 600) < 300
    ELSE IF e < 900 THEN ULMod(now, 900) < 450
    ELSE e < 5000

\* C14: a tick at time now with systemEnabled true shows the route r that owns
\* the active slot: for r.eta > 0 the color indicator of r is on (also for
\* eta >= 5000), the arrow of r's direction is isOn(classify(r.eta), now) and
\* nothing else is lit; for r.eta <= 0 every route indicator is off.  The
\* etas of the other routes make no difference.
C14_EnabledOutput ==
    (pc = "rendered" /\ systemEnabled) =>
        LET r == ActiveRoute
            colorPin == ColorPin(routes[r].color)
            arrowPin == ArrowPin(routes[r].arrow)
        IN  /\ (eta[r] > 0) =>
                  /\ pins[colorPin]
                  /\ pins[arrowPin] = ArrowExpected(eta[r], clock)
                  /\ \A q \in RoutePins \ {colorPin, arrowPin} : ~pins[q]
            /\ (eta[r] <= 0) => \A q \in RoutePins : ~pins[q]
            /\ \A i \in RouteIds \ {r} : \A v \in {-1, 0, 45, 5000} :
                  update(pins, clock, systemEnabled, [eta EXCEPT ![i] = v])
                      = update(pins, clock, systemEnabled, eta)

\* C14 witness: a tick in slot 5 with route 5 at 5000 s lit amber right and
\* no arrow
C14_Witness ==
    /\ pc = "rendered"
    /\ systemEnabled
    /\ currentSlot(clock) = 5
    /\ eta[5] = 5000
    /\ pins["PIN_AMBER_RIGHT"]
    /\ ~pins["PIN_ARROW_RIGHT"]
    /\ ~pins["PIN_ARROW_LEFT"]

\* C15: the pins at the end of a render tick are a function of now,
\* systemEnabled, alertActive and the six etas alone: the tick gives the same
\* pins from every level the pins could have had before it, so a repeated
\* tick at the same time changes nothing and a late tick leaves no trace.
C15_OutputStateless ==
    (pc = "rendered") =>
        /\ \A p \in AllPins : renderTick(SharedState, p, clock).pins = pins
        /\ renderTick(SharedState, pins, clock).pins = pins

\* C15 witness: the second tick, at 67290 ms in slot 0 with nothing to show,
\* one slot after a tick in slot 5 where route 5 stood at 45 s: nothing lit
C15_Witness ==
    /\ pc = "rendered"
    /\ ticks = 2
    /\ clock = UL(1, 1754)
    /\ systemEnabled
    /\ eta[5] = 45
    /\ eta[0] = 0
    /\ \A q \in PinNames : ~pins[q]

\* the number of handlers of handleMQTTMessage a topic matches
HandlersMatching(topic) ==
    (IF topic = "devices/busotron/enable" THEN 1 ELSE 0)
        + (IF topic = "CTApredictions/alert/active" THEN 1 ELSE 0)
        + Cardinality({i \in RouteIds : routes[i].topic = topic})

\* C16: the registry holds six routes; their slots are exactly 0..5, each
\* used once; their topics differ from one another and from the two control
\* topics.  So at every clock value the slot lookup of the render tick finds
\* exactly one route, and every topic that arrives matches at most one handler.
C16_RegistryWellFormed ==
    /\ Cardinality(DOMAIN routes) = 6
    /\ {routes[i].displaySlot : i \in DOMAIN routes} = 0 .. 5
    /\ \A slot \in 0 .. 5 :
          Cardinality({i \in DOMAIN routes : routes[i].displaySlot = slot}) = 1
    /\ \A i, j \in DOMAIN routes : (i # j) => routes[i].topic # routes[j].topic
    /\ \A i \in DOMAIN routes :
          routes[i].topic \notin {"devices/busotron/enable", "CTApredictions/alert/active"}
    /\ Cardinality({i \in DOMAIN routes : routes[i].displaySlot = currentSlot(clock)}) = 1
    /\ findSlotRoute(currentSlot(clock)) \in DOMAIN routes
    /\ (inbox # NoMsg) => HandlersMatching(inbox.topic) <= 1

\* C16 witness: a tick in slot 5 found route 5, whose topic had carried 45,
\* and showed it
C16_Witness ==
    /\ pc = "rendered"
    /\ currentSlot(clock) = 5
    /\ findSlotRoute(5) = 5
    /\ [topic |-> "CTApredictions/BUS/1151/151", payload |-> <<52, 53>>] \in lastMsg
    /\ systemEnabled
    /\ eta[5] = 45
    /\ pins["PIN_AMBER_RIGHT"]

\* no call of handleMQTTMessage has returned yet
NoMessageProcessed == msgCount = 0 \/ (msgCount = 1 /\ ~handled)

\* C17: the device starts with systemEnabled true, alertActive false and
\* every eta 0, and until a message has been processed every render tick, at
\* every timestamp and in particular at now = 0, ends with all five route
\* indicators and the status indicator off.
C17_QuietUntilFirstMessage ==
    NoMessageProcessed =>
        /\ systemEnabled
        /\ ~alertActive
        /\ \A i \in RouteIds : eta[i] = 0
        /\ (pc = "rendered") => \A q \in PinNames : ~pins[q]
        /\ \A p \in AllPins :
              LET out == renderTick(SharedState, p, UL(0, 0)).pins
              IN  \A q \in PinNames : ~out[q]

\* C17 witness: 49 days after boot with no message, a second tick ended with
\* every indicator off
C17_Witness ==
    /\ msgCount = 0
    /\ pc = "rendered"
    /\ ticks = 2
    /\ ~ULSmall(clock)
    /\ \A q \in PinNames : ~pins[q]

\* the messages that arrived last on a topic (none or one)
LastOn(topic) == {m \in lastMsg : m.topic = topic}

\* v is the value of the leading number of payload p, 0 if it has none
IsParsedValue(v, p) ==
    LET num == LeadingNumber(TokenOf(p))
    IN  IF num.digits = <<>> THEN v = 0
        ELSE /\ MagnitudeBytes(v) = StripZeros(num.digits)
             /\ num.neg => v <= 0
             /\ (~num.neg) => v >= 0

\* C18: whenever no call of the handler is under way, each route's eta is the
\* value parsed from the message that arrived last on its topic (0 if none
\* did), systemEnabled is what the last enable message said (true if there
\* was none) and alertActive what the last alert message said (false if
\* none), however messages on other topics and render ticks came in between.
C18_LastWriterWins ==
    (inbox = NoMsg \/ handled) =>
        /\ \A i \in RouteIds :
              /\ (LastOn(routes[i].topic) = {}) => eta[i] = 0
              /\ \A m \in LastOn(routes[i].topic) : IsParsedValue(eta[i], m.payload)
        /\ (LastOn("devices/busotron/enable") = {}) => systemEnabled
        /\ \A m \in LastOn("devices/busotron/enable") :
              systemEnabled = (TokenOf(m.payload) = <<79, 78>>)
        /\ (LastOn("CTApredictions/alert/active") = {}) => ~alertActive
        /\ \A m \in LastOn("CTApredictions/alert/active") :
              alertActive = (TokenOf(m.payload) = <<79, 78>>)
        /\ \A t \in {m.topic : m \in lastMsg} : Cardinality(LastOn(t)) = 1

\* C18 witness: route 0 was told 45, a tick was made, then route 0 was told
\* 950: its eta is 950
C18_Witness ==
    /\ handled
    /\ ticks = 1
    /\ inbox = [topic |-> "CTApredictions/BUS/dtwnEXP", payload |-> <<57, 53, 48>>]
    /\ pre.eta[0] = 45
    /\ eta[0] = 950

\* C19: only the return of handleMQTTMessage changes systemEnabled,
\* alertActive or an eta: a render tick, the passing of time and the start of
\* the next iteration leave all of them as they are.  So at the end of every
\* tick, however much later, the active route's eta is still the value of the
\* last message on its topic and, when positive, lights the route's color.
C19_RenderOnlyReads ==
    /\ [][(~(handled' /\ ~handled)) =>
              UNCHANGED <<systemEnabled, alertActive, eta>>]_vars
    /\ []((pc = "rendered" /\ systemEnabled) =>
              \A m \in LastOn(routes[ActiveRoute].topic) :
                  /\ IsParsedValue(eta[ActiveRoute], m.payload)
                  /\ (eta[ActiveRoute] > 0) => pins[ColorPin(routes[ActiveRoute].color)])

\* C19 witness: 49 days after route 0 was told 45, with no message since, a
\* tick in slot 0 still shows route 0
C19_Witness ==
    /\ pc = "rendered"
    /\ msgCount = 1
    /\ ~ULSmall(clock)
    /\ currentSlot(clock) = 0
    /\ inbox = [topic |-> "CTApredictions/BUS/dtwnEXP", payload |-> <<52, 53>>]
    /\ eta[0] = 45
    /\ pins["PIN_AMBER_LEFT"]

\* what the last message on a control topic said, dflt if there was none
LastSaidOn(topic, dflt) ==
    IF LastOn(topic) = {} THEN dflt
    ELSE \A m \in LastOn(topic) : TokenOf(m.payload) = <<79, 78>>

\* a step that enters or leaves handleMQTTMessage
HandlerStep == (inbox' # inbox) \/ (handled' # handled)

\* C20: the handler is entered and left only inside networkManager.loop(),
\* before the iteration's tick, and changes no pin; the pins change only
\* while no call of the handler is under way.  The tick that follows reads one
\* snapshot that holds every message delivered so far: the route indicators
\* are lit iff the last enable message and the last message on the active
\* route's topic say so, color and arrow go by the same eta, and the status
\* light is what the last alert message said.
C20_NoInterleaving ==
    /\ [][HandlerStep => (pc = "loop" /\ pc' = "loop" /\ pins' = pins)]_vars
    /\ [][(pins' # pins) =>
              ((inbox = NoMsg \/ handled) /\ ~HandlerStep /\ pc' = "rendered")]_vars
    /\ []((pc = "rendered") =>
              LET r == ActiveRoute
                  shown == LastSaidOn("devices/busotron/enable", TRUE) /\ eta[r] > 0
              IN  /\ inbox = NoMsg \/ handled
                  /\ (LastOn(routes[r].topic) = {}) => eta[r] = 0
                  /\ \A m \in LastOn(routes[r].topic) : IsParsedValue(eta[r], m.payload)
                  /\ pins[ColorPin(routes[r].color)] = shown
                  /\ pins[ArrowPin(routes[r].arrow)]
                        = (shown /\ ArrowExpected(eta[r], clock))
                  /\ pins["PIN_TALL_LIGHT"]
                        = LastSaidOn("CTApredictions/alert/active", FALSE))

\* C20 witness: route 0 stood at 45 when 950 arrived for it; the tick of the
\* same iteration, in slot 0, shows amber left with a solid left arrow
C20_Witness ==
    /\ pc = "rendered"
    /\ ticks = 1
    /\ handled
    /\ inbox = [topic |-> "CTApredictions/BUS/dtwnEXP", payload |-> <<57, 53, 48>>]
    /\ pre.eta[0] = 45
    /\ eta[0] = 950
    /\ currentSlot(clock) = 0
    /\ ULMod(clock, 180) >= 90
    /\ pins["PIN_AMBER_LEFT"]
    /\ pins["PIN_ARROW_LEFT"]

----------------------------------------------------------------------------
(* Claims about the connection *)

\* C21: after init, an iteration that finds the client disconnected makes one
\* reconnect attempt and goes on to poll and render, with systemEnabled,
\* alertActive, the etas and the pins untouched by the attempt; the tick made
\* while disconnected shows the last values received; and render ticks keep
\* coming for ever, whether the broker is ever reachable or not.
C21_RenderingNeverStops ==
    /\ [][(pc = "loop" /\ ~connected) =>
              (pc' = "poll" /\ pins' = pins
                 /\ UNCHANGED <<systemEnabled, alertActive, eta>>)]_vars
    /\ []((pc = "rendered") =>
              /\ pins["PIN_TALL_LIGHT"] = alertActive
              /\ pins[ColorPin(routes[ActiveRoute].color)]
                    = (systemEnabled /\ eta[ActiveRoute] > 0))
    /\ []<>(pc = "rendered")

\* C21 witness: with the client disconnected, a tick in slot 0 shows route 0,
\* which was told 45 while the connection was up
C21_Witness ==
    /\ pc = "rendered"
    /\ ~connected
    /\ subscribed = {}
    /\ currentSlot(clock) = 0
    /\ eta[0] = 45
    /\ systemEnabled
    /\ pins["PIN_AMBER_LEFT"]

\* C22: whenever the client is connected after init (through the connectMQTT
\* of init or through a later reconnectMQTT), the device is subscribed to the
\* two control topics and the six route topics, so that messages published
\* from then on are delivered to handleMQTTMessage.
C22_ReconnectResubscribes ==
    (pc # "setup" /\ connected) =>
        subscribed = {"devices/busotron/enable", "CTApredictions/alert/active"}
                        \cup {routes[i].topic : i \in RouteIds}

(* Claims about what a tick leaves lit *)

\* the arrow pins and the color pins
ArrowPins == {"PIN_ARROW_LEFT", "PIN_ARROW_RIGHT"}

ColorPins == {"PIN_AMBER_LEFT", "PIN_AMBER_RIGHT", "PIN_RED"}

\* at most one arrow pin and at most one color pin of p is on, and a pin that
\* is on is the arrow pin or the color pin of route r
OneRouteShown(p, r) ==
    /\ ~(p["PIN_ARROW_LEFT"] /\ p["PIN_ARROW_RIGHT"])
    /\ \A q1, q2 \in ColorPins : (p[q1] /\ p[q2]) => q1 = q2
    /\ \A q \in ArrowPins \cup ColorPins :
          p[q] => q \in {ArrowPin(routes[r].arrow), ColorPin(routes[r].color)}

\* C23: at the end of every render tick at most one arrow indicator and at
\* most one color indicator is on, and a lit arrow or color is the arrow
\* direction and the color of the route that owns the active slot; this holds
\* from every level the five route pins could have had before the tick, so an
\* indicator lit for the route of the previous slot is never left on.
C23_OneRouteShown ==
    (pc = "rendered") =>
        LET r == ActiveRoute
        IN  /\ OneRouteShown(pins, r)
            /\ \A before \in [RoutePins -> BOOLEAN] :
                  LET p == [q \in PinNames |->
                               IF q \in RoutePins THEN before[q] ELSE pins[q]]
                      out == update(p, clock, systemEnabled, eta)
                  IN  OneRouteShown(out, r)

\* C23 witness: the second tick, at 67290 ms in slot 0, one slot after a tick
\* in slot 5; routes 5 and 0 both stand at 45 s, and only amber left, the
\* color of route 0, is lit (the arrow is in the off-half of its interval)
C23_Witness ==
    /\ pc = "rendered"
    /\ ticks = 2
    /\ clock = UL(1, 1754)
    /\ systemEnabled
    /\ eta[5] = 45
    /\ eta[0] = 45
    /\ pins["PIN_AMBER_LEFT"]
    /\ \A q \in RoutePins \ {"PIN_AMBER_LEFT"} : ~pins[q]

(* Claims about messages that arrive while the system is disabled *)

\* what alert and route messages can change of the states in sts
Applied(sts) == {[alertActive |-> st.alertActive, eta |-> st.eta] : st \in sts}

\* C24: handleMQTTMessage routes alert and route messages without looking at
\* systemEnabled: the call that has returned left systemEnabled alone and
\* would have stored the same alertActive and etas had systemEnabled been the
\* other way; a value that arrived while the system was disabled is the one
\* stored; and once the system is enabled again a tick in a route's slot
\* shows the route by the latest eta received, also when that arrived while
\* the system was disabled.
C24_RoutingIgnoresEnable ==
    /\ (inbox # NoMsg /\ handled /\ inbox.topic # ENABLE_TOPIC) =>
          /\ systemEnabled = pre.systemEnabled
          /\ [alertActive |-> alertActive, eta |-> eta]
                \in Applied(handleMQTTMessage(pre, inbox.topic, inbox.payload))
          /\ Applied(handleMQTTMessage([pre EXCEPT !.systemEnabled = TRUE],
                                       inbox.topic, inbox.payload))
                = Applied(handleMQTTMessage([pre EXCEPT !.systemEnabled = FALSE],
                                            inbox.topic, inbox.payload))
    /\ (inbox = NoMsg \/ handled) =>
          /\ \A i \in RouteIds : \A m \in LastOn(routes[i].topic) :
                (m.topic \in whileOff) => IsParsedValue(eta[i], m.payload)
          /\ \A m \in LastOn(ALERT_TOPIC) :
                (m.topic \in whileOff) =>
                    /\ alertActive = (TokenOf(m.payload) = <<79, 78>>)
                    /\ (pc = "rendered") => pins["PIN_TALL_LIGHT"] = alertActive
    /\ (pc = "rendered" /\ systemEnabled) =>
          LET r == ActiveRoute
          IN  \A m \in LastOn(routes[r].topic) :
                (m.topic \in whileOff) =>
                    /\ IsParsedValue(eta[r], m.payload)
                    /\ pins[ColorPin(routes[r].color)] = (eta[r] > 0)
                    /\ pins[ArrowPin(routes[r].arrow)]
                          = (eta[r] > 0 /\ ArrowExpected(eta[r], clock))

\* C24 witness: route 0 was told 45 while the system was disabled, the enable
\* topic then said ON, and the second tick, at 3100 ms in slot 0 and in the
\* on-half of the 180 ms interval, shows amber left and the left arrow
C24_Witness ==
    /\ pc = "rendered"
    /\ ticks = 2
    /\ clock = UL(0, 3100)
    /\ msgCount = 3
    /\ inbox = [topic |-> ENABLE_TOPIC, payload |-> <<79, 78>>]
    /\ handled
    /\ ~pre.systemEnabled
    /\ systemEnabled
    /\ routes[0].topic \in whileOff
    /\ [topic |-> routes[0].topic, payload |-> <<52, 53>>] \in lastMsg
    /\ eta[0] = 45
    /\ pins["PIN_AMBER_LEFT"]
    /\ pins["PIN_ARROW_LEFT"]

====
